---- MODULE Spec2Model ----
(***************************************************************************)
(* Model of server.js, the MCPanel orchestration backend: the in-memory    *)
(* registry `containers`, the record objects it holds, the HTTP handlers   *)
(* under /api and the delayed callbacks they schedule with setTimeout.     *)
(*                                                                         *)
(* Time is counted in ticks of 1000 ms.  A timer scheduled with a delay of *)
(* d ticks carries the ticks left until it is due (ttl); the clock does    *)
(* not pass a due timer, timers of the same delay fire in the order they   *)
(* were scheduled (Node keeps one FIFO list per delay) and timers of       *)
(* different delays that are due at the same tick fire in either order.    *)
(* A handler or a callback runs to completion: each is one atomic step.    *)
(* A timestamp is the tick at which it was taken.  The clock is only       *)
(* followed while a timer is pending.  A run is cut after MaxRequests      *)
(* requests; the timers still pending then run to the end.                 *)
(*                                                                         *)
(* A record object is named by its position in `heap`.  The registry key   *)
(* drawn with crypto.randomBytes(16) is modelled as a fresh value: the     *)
(* position of the record it names, so no key is drawn twice.              *)
(***************************************************************************)
EXTENDS Integers, Sequences, FiniteSets, TLC

VARIABLES
    containers,  \* keys of the Map `containers` (key i holds object heap[i])
    heap,        \* every record object ever built, stored or detached
    tasks,       \* pending setTimeout callbacks: one FIFO list per delay
    now,         \* the clock, in ticks
    requests,    \* requests received so far
    response     \* the last HTTP response sent

vars == <<containers, heap, tasks, now, requests, response>>

\* ---------------------------------------------------------------- bounds
\* requests received in one run
MaxRequests == 3

\* ------------------------------------------------------ program constants
API_KEY == "mcpanel-dev-key"
DefaultType == "paper"
DefaultVersion == "1.21.1"
DefaultPort == 25565
DefaultRamMb == 2048
DefaultMaxPlayers == 20
CreateDelay == 3
StartDelay == 3
StopDelay == 2
RestartStopDelay == 2
RestartStartDelay == 3

\* ------------------------------------------------------------ input sets
\* the ids a request may name: every key issued so far and one that never was
Ids == 1..(Len(heap) + 1)
Keys == {API_KEY, "wrong-key", ""}
\* "" and 0 stand for a field that is absent (or empty / zero): all falsy.
Configs ==
    { [name |-> "Survival", type |-> "", version |-> "1.20.4", port |-> 0,
       ramMb |-> 4096, maxPlayers |-> 0],
      [name |-> "", type |-> "vanilla", version |-> "", port |-> 25570,
       ramMb |-> 0, maxPlayers |-> 50] }

NoTime == -1   \* a timestamp property that was never set
Statuses == {"created", "starting", "running", "stopping", "stopped"}

\* ---------------------------------------------------------------- helpers
\* a || b on strings and on numbers
OrStr(a, b) == IF a = "" THEN b ELSE a
OrNum(a, b) == IF a = 0 THEN b ELSE a

\* new Date().toISOString()
Timestamp == now

\* (a mutant: any key that is present is accepted)
authenticateAnyKey(key) == ~(key = "")

authenticate(key) == ~(key = "" \/ key # API_KEY)

\* the timer lists, one per delay
Delays == {CreateDelay, StartDelay, StopDelay, RestartStopDelay, RestartStartDelay}

\* (a mutant: a new timer replaces the pending timers of the same record and
\* delay, as a debounce keyed by record would)
setTimeoutReplacing(timers, kind, id, delay) ==
    [timers EXCEPT ![delay] =
        Append(SelectSeq(timers[delay], LAMBDA t : t.id # id),
               [kind |-> kind, id |-> id, ttl |-> delay])]

\* setTimeout(callback, delay): the callback joins the end of its delay's list
setTimeout(timers, kind, id, delay) ==
    [timers EXCEPT ![delay] = Append(@, [kind |-> kind, id |-> id, ttl |-> delay])]

\* every pending callback, as <<delay, position>>
Pending == UNION {{<<d, k>> : k \in 1..Len(tasks[d])} : d \in Delays}
PendingFor(id) == {p \in Pending : tasks[p[1]][p[2]].id = id}
KindsFor(id) == {tasks[p[1]][p[2]].kind : p \in PendingFor(id)}

Reply(code, success, message) ==
    [code |-> code, success |-> success, message |-> message]

NotFound == Reply(404, FALSE, "Server not found")

\* before the first request
NoResponse == Reply(0, FALSE, "")

\* ------------------------------------------------------------------- Init
Init ==
    /\ containers = {}
    /\ heap = <<>>
    /\ tasks = [d \in Delays |-> <<>>]
    /\ requests = 0
    /\ now = 0
    /\ response = NoResponse

\* --------------------------------------------------------------- handlers
\* authenticate: a request to /api with a bad key ends with 401
Reject(key) ==
    /\ ~authenticate(key)
    /\ requests < MaxRequests
    /\ requests' = requests + 1
    /\ response' = Reply(401, FALSE, "Unauthorized: Invalid API key")
    /\ UNCHANGED <<containers, heap, tasks, now>>

\* (a mutant: the lowest id not in the registry, so a deleted id comes back)
randomBytesRecycled ==
    CHOOSE i \in 1..(Len(heap) + 1) :
        /\ i \notin containers
        /\ \A j \in 1..(i - 1) : j \in containers

\* crypto.randomBytes(16).toString('hex'): 128 random bits, modelled as a
\* draw that never repeats an earlier one (the code has no collision check)
randomBytes == Len(heap) + 1

createContainer(containerId, config) ==
    [id |-> containerId,
     name |-> config.name,
     type |-> OrStr(config.type, DefaultType),
     version |-> OrStr(config.version, DefaultVersion),
     port |-> OrNum(config.port, DefaultPort),
     ramMb |-> OrNum(config.ramMb, DefaultRamMb),
     maxPlayers |-> OrNum(config.maxPlayers, DefaultMaxPlayers),
     status |-> "created",
     createdAt |-> Timestamp,
     startedAt |-> NoTime,
     stoppedAt |-> NoTime]

\* (a mutant: the name is not validated)
CreateServerUnvalidated(key, config) ==
    /\ authenticate(key)
    /\ requests < MaxRequests
    /\ requests' = requests + 1
    /\ LET containerId == Len(heap) + 1 IN
         /\ heap' = Append(heap, createContainer(containerId, config))
         /\ containers' = containers \cup {containerId}
         /\ tasks' = setTimeout(tasks, "create", containerId, CreateDelay)
         /\ response' = Reply(201, TRUE, "created")
    /\ UNCHANGED now

\* POST /api/servers
CreateServer(key, config) ==
    /\ authenticate(key)
    /\ requests < MaxRequests
    /\ requests' = requests + 1
    /\ IF config.name = ""
       THEN /\ response' = Reply(400, FALSE, "Server name is required")
            /\ UNCHANGED <<containers, heap, tasks, now>>
       ELSE /\ LET containerId == randomBytes IN
               /\ heap' = Append(heap, createContainer(containerId, config))
               /\ containers' = containers \cup {containerId}
               /\ tasks' = setTimeout(tasks, "create", containerId, CreateDelay)
               /\ response' = Reply(201, TRUE, "created")
            /\ UNCHANGED now

\* GET /api/servers/:id
GetServer(key, id) ==
    /\ authenticate(key)
    /\ requests < MaxRequests
    /\ requests' = requests + 1
    /\ response' = IF id \notin containers THEN NotFound
                   ELSE Reply(200, TRUE, "container")
    /\ UNCHANGED <<containers, heap, tasks, now>>

\* (a mutant: no check for a record that is already running)
StartServerUnguarded(key, id) ==
    /\ authenticate(key)
    /\ requests < MaxRequests
    /\ requests' = requests + 1
    /\ IF id \notin containers
       THEN /\ response' = NotFound
            /\ UNCHANGED <<containers, heap, tasks, now>>
       ELSE /\ heap' = [heap EXCEPT ![id].status = "starting"]
            /\ tasks' = setTimeout(tasks, "start", id, StartDelay)
            /\ response' = Reply(200, TRUE, "Server starting")
            /\ UNCHANGED <<containers, now>>

\* POST /api/servers/:id/start
StartServer(key, id) ==
    /\ authenticate(key)
    /\ requests < MaxRequests
    /\ requests' = requests + 1
    /\ IF id \notin containers
       THEN /\ response' = NotFound
            /\ UNCHANGED <<containers, heap, tasks, now>>
       ELSE IF heap[id].status = "running"
       THEN /\ response' = Reply(200, FALSE, "Already running")
            /\ UNCHANGED <<containers, heap, tasks, now>>
       ELSE /\ heap' = [heap EXCEPT ![id].status = "starting"]
            /\ tasks' = setTimeout(tasks, "start", id, StartDelay)
            /\ response' = Reply(200, TRUE, "Server starting")
            /\ UNCHANGED <<containers, now>>

\* (a mutant: no check for a record that is already stopped)
StopServerUnguarded(key, id) ==
    /\ authenticate(key)
    /\ requests < MaxRequests
    /\ requests' = requests + 1
    /\ IF id \notin containers
       THEN /\ response' = NotFound
            /\ UNCHANGED <<containers, heap, tasks, now>>
       ELSE /\ heap' = [heap EXCEPT ![id].status = "stopping"]
            /\ tasks' = setTimeout(tasks, "stop", id, StopDelay)
            /\ response' = Reply(200, TRUE, "Server stopping")
            /\ UNCHANGED <<containers, now>>

\* (a mutant: the completion is never scheduled)
StopServerNoTimer(key, id) ==
    /\ authenticate(key)
    /\ requests < MaxRequests
    /\ requests' = requests + 1
    /\ IF id \notin containers
       THEN /\ response' = NotFound
            /\ UNCHANGED <<containers, heap, tasks, now>>
       ELSE IF heap[id].status = "stopped"
       THEN /\ response' = Reply(200, FALSE, "Already stopped")
            /\ UNCHANGED <<containers, heap, tasks, now>>
       ELSE /\ heap' = [heap EXCEPT ![id].status = "stopping"]
            /\ response' = Reply(200, TRUE, "Server stopping")
            /\ UNCHANGED <<containers, tasks, now>>

\* POST /api/servers/:id/stop
StopServer(key, id) ==
    /\ authenticate(key)
    /\ requests < MaxRequests
    /\ requests' = requests + 1
    /\ IF id \notin containers
       THEN /\ response' = NotFound
            /\ UNCHANGED <<containers, heap, tasks, now>>
       ELSE IF heap[id].status = "stopped"
       THEN /\ response' = Reply(200, FALSE, "Already stopped")
            /\ UNCHANGED <<containers, heap, tasks, now>>
       ELSE /\ heap' = [heap EXCEPT ![id].status = "stopping"]
            /\ tasks' = setTimeout(tasks, "stop", id, StopDelay)
            /\ response' = Reply(200, TRUE, "Server stopping")
            /\ UNCHANGED <<containers, now>>

\* (a mutant: both phases of the restart are scheduled by the handler)
RestartServerBothTimers(key, id) ==
    /\ authenticate(key)
    /\ requests < MaxRequests
    /\ requests' = requests + 1
    /\ IF id \notin containers
       THEN /\ response' = NotFound
            /\ UNCHANGED <<containers, heap, tasks, now>>
       ELSE /\ heap' = [heap EXCEPT ![id].status = "stopping"]
            /\ tasks' = setTimeout(
                            setTimeout(tasks, "restartStop", id, RestartStopDelay),
                            "restartStart", id, RestartStartDelay)
            /\ response' = Reply(200, TRUE, "Server restarting")
            /\ UNCHANGED <<containers, now>>

\* POST /api/servers/:id/restart
RestartServer(key, id) ==
    /\ authenticate(key)
    /\ requests < MaxRequests
    /\ requests' = requests + 1
    /\ IF id \notin containers
       THEN /\ response' = NotFound
            /\ UNCHANGED <<containers, heap, tasks, now>>
       ELSE /\ heap' = [heap EXCEPT ![id].status = "stopping"]
            /\ tasks' = setTimeout(tasks, "restartStop", id, RestartStopDelay)
            /\ response' = Reply(200, TRUE, "Server restarting")
            /\ UNCHANGED <<containers, now>>

\* (a mutant: the record stays in the registry)
DeleteServerKeeps(key, id) ==
    /\ authenticate(key)
    /\ requests < MaxRequests
    /\ requests' = requests + 1
    /\ IF id \notin containers
       THEN /\ response' = NotFound
            /\ UNCHANGED <<containers, heap, tasks, now>>
       ELSE /\ response' = Reply(200, TRUE, "Server deleted")
            /\ UNCHANGED <<containers, heap, tasks, now>>

\* (a mutant: deleting a missing record reports success)
DeleteServerIdempotent(key, id) ==
    /\ authenticate(key)
    /\ requests < MaxRequests
    /\ requests' = requests + 1
    /\ containers' = containers \ {id}
    /\ response' = Reply(200, TRUE, "Server deleted")
    /\ UNCHANGED <<heap, tasks, now>>

\* DELETE /api/servers/:id
DeleteServer(key, id) ==
    /\ authenticate(key)
    /\ requests < MaxRequests
    /\ requests' = requests + 1
    /\ IF id \notin containers
       THEN /\ response' = NotFound
            /\ UNCHANGED <<containers, heap, tasks, now>>
       ELSE /\ containers' = containers \ {id}
            /\ response' = Reply(200, TRUE, "Server deleted")
            /\ UNCHANGED <<heap, tasks, now>>

\* ------------------------------------------------------ delayed callbacks
\* what each callback writes to the heap when it runs for timer t
\* (a mutant: the registry is not consulted)
createCallbackUnchecked(t) ==
    [heap EXCEPT ![t.id].status = "running", ![t.id].startedAt = Timestamp]

\* (a mutant: the callback leaves a record alone that has left 'created')
createCallbackIfCreated(t) ==
    IF t.id \in containers /\ heap[t.id].status = "created"
    THEN [heap EXCEPT ![t.id].status = "running", ![t.id].startedAt = Timestamp]
    ELSE heap

\* create's callback: looks the record up in the registry first
createCallback(t) ==
    IF t.id \in containers
    THEN [heap EXCEPT ![t.id].status = "running", ![t.id].startedAt = Timestamp]
    ELSE heap

\* (a mutant: the timestamp is not written)
startCallbackNoStamp(t) ==
    [heap EXCEPT ![t.id].status = "running"]

\* start's callback: writes through the object the handler captured
startCallback(t) ==
    [heap EXCEPT ![t.id].status = "running", ![t.id].startedAt = Timestamp]

\* (a mutant: the status is written without its timestamp)
stopCallbackNoStamp(t) ==
    [heap EXCEPT ![t.id].status = "stopped"]

\* (a mutant: a stopped record is put back to its initial status)
stopCallbackCreated(t) ==
    [heap EXCEPT ![t.id].status = "created", ![t.id].stoppedAt = Timestamp]

stopCallback(t) ==
    [heap EXCEPT ![t.id].status = "stopped", ![t.id].stoppedAt = Timestamp]

\* (a mutant: the first phase already reports the record running)
restartStopCallbackRunning(t) ==
    [heap EXCEPT ![t.id].status = "running"]

\* (a mutant: a status outside the five)
restartStopCallbackRestarting(t) ==
    [heap EXCEPT ![t.id].status = "restarting"]

\* restart's outer callback
restartStopCallback(t) ==
    [heap EXCEPT ![t.id].status = "starting"]

\* (a mutant: the stamp lands on createdAt)
restartStartCallbackStampsCreated(t) ==
    [heap EXCEPT ![t.id].status = "running", ![t.id].createdAt = Timestamp]

\* restart's inner callback
restartStartCallback(t) ==
    [heap EXCEPT ![t.id].status = "running", ![t.id].startedAt = Timestamp]

Written(t) ==
    CASE t.kind = "create" -> createCallback(t)
      [] t.kind = "start" -> startCallback(t)
      [] t.kind = "stop" -> stopCallback(t)
      [] t.kind = "restartStop" -> restartStopCallback(t)
      [] t.kind = "restartStart" -> restartStartCallback(t)

\* (a mutant: the outer callback of restart forgets the inner timer)
RescheduledNoSecondPhase(d, t) ==
    [tasks EXCEPT ![d] = Tail(@)]

\* the timers left once the head of list d has run its callback t
Rescheduled(d, t) ==
    LET rest == [tasks EXCEPT ![d] = Tail(@)] IN
    IF t.kind = "restartStop"
    THEN setTimeout(rest, "restartStart", t.id, RestartStartDelay)
    ELSE rest

\* the event loop runs the head of list d, which is due
Fire(d) ==
    /\ tasks[d] # <<>>
    /\ Head(tasks[d]).ttl = 0
    /\ heap' = Written(Head(tasks[d]))
    /\ tasks' = Rescheduled(d, Head(tasks[d]))
    /\ UNCHANGED <<containers, now, requests, response>>

\* a tick of the clock: only while a timer is pending and none is due
Tick ==
    /\ \E d \in Delays : tasks[d] # <<>>
    /\ \A d \in Delays : \A k \in 1..Len(tasks[d]) : tasks[d][k].ttl > 0
    /\ tasks' = [d \in Delays |->
                   IF tasks[d] = <<>> THEN <<>>
                   ELSE [k \in 1..Len(tasks[d]) |-> [tasks[d][k] EXCEPT !.ttl = @ - 1]]]
    /\ now' = now + 1
    /\ UNCHANGED <<containers, heap, requests, response>>

Next ==
    \/ \E key \in Keys : Reject(key)
    \/ \E key \in Keys, config \in Configs : CreateServer(key, config)
    \/ \E key \in Keys, id \in Ids : GetServer(key, id)
    \/ \E key \in Keys, id \in Ids : StartServer(key, id)
    \/ \E key \in Keys, id \in Ids : StopServer(key, id)
    \/ \E key \in Keys, id \in Ids : RestartServer(key, id)
    \/ \E key \in Keys, id \in Ids : DeleteServer(key, id)
    \/ \E d \in Delays : Fire(d)
    \/ Tick

Spec == Init /\ [][Next]_vars

\* the timer phase of the event loop: run a due callback, or let time pass
\* when none is due
TimerPhase == Tick \/ \E d \in Delays : Fire(d)

\* the event loop keeps running its timer phase while timers are pending
FairSpec == Spec /\ WF_vars(TimerPhase)

\* ------------------------------------------------------- claim vocabulary
Allocated == 1..Len(heap)
Transient == {"starting", "stopping"}
Rest == {"running", "stopped"}
RestartKinds == {"restartStop", "restartStart"}

\* the step sends the request `op` for id with a valid key
Requested(op, id) ==
    CASE op = "get" -> GetServer(API_KEY, id)
      [] op = "start" -> StartServer(API_KEY, id)
      [] op = "stop" -> StopServer(API_KEY, id)
      [] op = "restart" -> RestartServer(API_KEY, id)
      [] op = "delete" -> DeleteServer(API_KEY, id)

\* the step runs the callback of a timer of kind `kind` set for id
Fired(kind, id) ==
    \E d \in Delays :
        /\ Fire(d)
        /\ Head(tasks[d]).kind = kind
        /\ Head(tasks[d]).id = id

\* the step adds exactly one timer: [kind, id] at the end of list `delay`
SchedulesOne(kind, id, delay) ==
    /\ tasks'[delay] = Append(tasks[delay], [kind |-> kind, id |-> id, ttl |-> delay])
    /\ \A d \in Delays \ {delay} : tasks'[d] = tasks[d]

\* ---------------------------------------------------------------------- C1
\* C1: a create request with a non-empty name stores the record with status
\* 'created' when it returns; when create's timer fires and the record is
\* still stored, its status becomes 'running' and startedAt is set; when the
\* record was deleted first, the timer changes nothing and the id stays
\* unresolvable.
C1_CreateLifecycle ==
    [][ /\ \A key \in Keys, config \in Configs :
              CreateServer(key, config) /\ config.name # "" =>
                  /\ response'.code = 201
                  /\ Len(heap') = Len(heap) + 1
                  /\ Len(heap') \in containers'
                  /\ heap'[Len(heap')].status = "created"
        /\ \A id \in Allocated :
              Fired("create", id) =>
                  IF id \in containers
                  THEN /\ heap'[id].status = "running"
                       /\ heap'[id].startedAt = now
                  ELSE /\ heap' = heap
                       /\ id \notin containers'
      ]_vars

\* one record was deleted before its create timer fired and is untouched,
\* another went from 'created' to 'running' by its create timer alone
C1_Witness ==
    \E a, b \in Allocated :
        /\ a \notin containers /\ PendingFor(a) = {}
        /\ heap[a].status = "created" /\ heap[a].startedAt = NoTime
        /\ b \in containers /\ PendingFor(b) = {}
        /\ heap[b].status = "running" /\ heap[b].startedAt # NoTime
        /\ requests = 3

\* ---------------------------------------------------------------------- C2
Rank(status) ==
    CASE status = "stopping" -> 1
      [] status = "starting" -> 2
      [] status = "running" -> 3
      [] OTHER -> 0

RestartPending(id) == KindsFor(id) \cap RestartKinds # {}

\* C2 as stated: while a restart of a stored record is between acceptance
\* and final completion, the status only moves forward through 'stopping',
\* 'starting', 'running' and takes no other value, whatever is interleaved.
C2_Original ==
    [][ \A id \in containers \cap containers' :
            RestartPending(id) =>
                /\ Rank(heap'[id].status) > 0
                /\ Rank(heap'[id].status) >= Rank(heap[id].status)
      ]_vars

\* the record is inside a restart that runs alone: one timer is pending for
\* it, a restart timer, and the status is the one that phase wrote
InRestart(id, kind) ==
    /\ id \in containers
    /\ Cardinality(PendingFor(id)) = 1
    /\ KindsFor(id) = {kind}
    /\ heap[id].status = (IF kind = "restartStop" THEN "stopping" ELSE "starting")

\* the step accepts no request for id and leaves it stored
Undisturbed(id) ==
    /\ id \in containers'
    /\ Cardinality(PendingFor(id)') <= 1
    /\ KindsFor(id)' \subseteq RestartKinds

\* C2 (amended): a restart accepted while no timer is pending for the record,
\* and with no other request for the record accepted before it completes,
\* takes the status through 'stopping', 'starting', 'running' in that order
\* with no other value in between.
C2_RestartAlone ==
    [][ \A id \in Allocated :
          /\ Requested("restart", id) /\ id \in containers /\ PendingFor(id) = {}
                => InRestart(id, "restartStop")'
          /\ InRestart(id, "restartStop") /\ Undisturbed(id)
                => \/ InRestart(id, "restartStop")'
                   \/ InRestart(id, "restartStart")'
          /\ InRestart(id, "restartStart") /\ Undisturbed(id)
                => \/ InRestart(id, "restartStart")'
                   \/ /\ PendingFor(id)' = {}
                      /\ heap'[id].status = "running"
                      /\ heap'[id].startedAt = now
      ]_vars

\* a restart is in its second phase: it was accepted no earlier than the
\* tick at which the create timer fired and it is the only other request of
\* the run
C2_Witness ==
    \E id \in containers :
        /\ InRestart(id, "restartStart")
        /\ Len(heap) = 1 /\ requests = 2
        /\ heap[id].startedAt = heap[id].createdAt + CreateDelay
        /\ LET left == Head(tasks[RestartStartDelay]).ttl
               acceptedAt == now - (RestartStartDelay - left) - RestartStopDelay
           IN  acceptedAt >= heap[id].startedAt

\* ---------------------------------------------------------------------- C3
\* C3: once a delete request has succeeded for an id, the id is never in
\* the registry again, whatever timer fires or request arrives, and every
\* later get, start, stop, restart or delete request for it is answered
\* not-found.
C3_DeletedStaysGone ==
    [][ \A id \in Allocated :
          /\ Requested("delete", id) /\ response'.message = "Server deleted"
                => id \notin containers'
          /\ id \notin containers
                => /\ id \notin containers'
                   /\ \A op \in {"get", "start", "stop", "restart", "delete"} :
                          Requested(op, id) => response' = NotFound
      ]_vars

\* a record was deleted, its pending timer has fired since, and a request for
\* its id is answered not-found
C3_Witness ==
    \E id \in Allocated :
        /\ id \notin containers
        /\ PendingFor(id) = {}
        /\ now >= heap[id].createdAt + CreateDelay
        /\ response = NotFound

\* ---------------------------------------------------------------------- C4
\* C4: a timer that fires after its record was deleted writes no field of
\* any record object, stored or detached, and schedules no further timer.
C4_LateTimerIsNoOp ==
    [][ \A d \in Delays :
            Fire(d) /\ Head(tasks[d]).id \notin containers
                => /\ heap' = heap
                   /\ tasks' = [tasks EXCEPT ![d] = Tail(@)]
      ]_vars

\* ---------------------------------------------------------------------- C5
\* C5: a start request on a record whose status is 'running' answers
\* success=false 'Already running', changes no field of any record and
\* schedules no timer.
C5_StartOnRunning ==
    [][ \A id \in containers :
            Requested("start", id) /\ heap[id].status = "running"
                => /\ response' = Reply(200, FALSE, "Already running")
                   /\ UNCHANGED <<containers, heap, tasks>>
      ]_vars

C5_Witness ==
    /\ response.message = "Already running"
    /\ \E id \in containers : heap[id].status = "running"

\* ---------------------------------------------------------------------- C6
\* C6: a stop request on a record whose status is 'stopped' answers
\* success=false 'Already stopped', changes no field of any record and
\* schedules no timer.
C6_StopOnStopped ==
    [][ \A id \in containers :
            Requested("stop", id) /\ heap[id].status = "stopped"
                => /\ response' = Reply(200, FALSE, "Already stopped")
                   /\ UNCHANGED <<containers, heap, tasks>>
      ]_vars

C6_Witness ==
    /\ response.message = "Already stopped"
    /\ \E id \in containers : heap[id].status = "stopped"

\* ---------------------------------------------------------------------- C7
\* C7: a start request on a stored record whose status is 'created',
\* 'starting', 'stopping' or 'stopped' sets the status to 'starting' before
\* it returns and schedules exactly one timer; when that timer fires on a
\* record still stored, the status becomes 'running' and startedAt is set.
C7_StartTransition ==
    [][ \A id \in containers :
          /\ Requested("start", id)
                /\ heap[id].status \in {"created", "starting", "stopping", "stopped"}
                => /\ heap'[id].status = "starting"
                   /\ SchedulesOne("start", id, StartDelay)
                   /\ response' = Reply(200, TRUE, "Server starting")
          /\ Fired("start", id)
                => /\ heap'[id].status = "running"
                   /\ heap'[id].startedAt = now
      ]_vars

\* a stopped record was started and its start timer has fired
C7_Witness ==
    \E id \in containers :
        /\ response.message = "Server starting"
        /\ PendingFor(id) = {}
        /\ heap[id].status = "running"
        /\ heap[id].startedAt # NoTime
        /\ heap[id].stoppedAt # NoTime

\* ---------------------------------------------------------------------- C8
\* C8: a stop request on a stored record whose status is 'created',
\* 'starting', 'running' or 'stopping' sets the status to 'stopping' before
\* it returns and schedules exactly one timer; when that timer fires on a
\* record still stored, the status becomes 'stopped' and stoppedAt is set.
C8_StopTransition ==
    [][ \A id \in containers :
          /\ Requested("stop", id)
                /\ heap[id].status \in {"created", "starting", "running", "stopping"}
                => /\ heap'[id].status = "stopping"
                   /\ SchedulesOne("stop", id, StopDelay)
                   /\ response' = Reply(200, TRUE, "Server stopping")
          /\ Fired("stop", id)
                => /\ heap'[id].status = "stopped"
                   /\ heap'[id].stoppedAt = now
      ]_vars

\* a running record was stopped and its stop timer has fired
C8_Witness ==
    \E id \in containers :
        /\ response.message = "Server stopping"
        /\ PendingFor(id) = {}
        /\ heap[id].status = "stopped"
        /\ heap[id].stoppedAt # NoTime
        /\ heap[id].startedAt # NoTime

\* ---------------------------------------------------------------------- C9
\* C9: a stored record whose status is 'starting' or 'stopping' eventually
\* has status 'running' or 'stopped', unless it is deleted, provided that
\* pending timers are run.  (The record numbered MaxRequests is never
\* transient: its creation used up the last request of the run.)
C9_TransientResolves ==
    \A id \in 1..(MaxRequests - 1) :
        (id \in containers /\ heap[id].status \in Transient)
            ~> (id \notin containers \/ heap[id].status \in Rest)

\* a restart has run both phases: the record came to rest from 'stopping'
\* by way of 'starting'
C9_Witness ==
    \E id \in containers :
        /\ response.message = "Server restarting"
        /\ PendingFor(id) = {}
        /\ heap[id].status = "running"

\* --------------------------------------------------------------------- C10
\* C10: the status of every stored record is one of 'created', 'starting',
\* 'running', 'stopping', 'stopped'.
C10_StatusInEnum ==
    \A id \in containers : heap[id].status \in Statuses

\* two stored records, one left 'starting' by a restart's first phase
C10_Witness ==
    \E a, b \in containers :
        /\ a # b
        /\ heap[a].status = "starting" /\ KindsFor(a) = {"restartStart"}
        /\ heap[b].status = "created"

\* --------------------------------------------------------------------- C11
\* C11: a create request whose name is missing or empty is answered with
\* 400, stores no record and schedules no timer.
C11_NamelessCreate ==
    [][ \A config \in Configs :
            CreateServer(API_KEY, config) /\ config.name = ""
                => /\ response' = Reply(400, FALSE, "Server name is required")
                   /\ UNCHANGED <<containers, heap, tasks>>
      ]_vars

\* a nameless create was refused while a record was stored and its timer
\* pending
C11_Witness ==
    /\ response.code = 400
    /\ containers # {}
    /\ Pending # {}

\* --------------------------------------------------------------------- C12
\* C12: a get, start, stop, restart or delete request for an id that is not
\* in the registry (deleted or never issued) is answered with 404, changes
\* neither the registry nor any record, and schedules no timer.
C12_UnknownId ==
    [][ \A id \in Ids :
            \A op \in {"get", "start", "stop", "restart", "delete"} :
                Requested(op, id) /\ id \notin containers
                    => /\ response' = NotFound
                       /\ UNCHANGED <<containers, heap, tasks>>
      ]_vars

\* a request for an id that was never issued was answered 404: nothing was
\* ever deleted, and a record is stored with its timer pending
C12_Witness ==
    /\ response = NotFound
    /\ containers = Allocated
    /\ containers # {}
    /\ Pending # {}

\* --------------------------------------------------------------------- C13
\* the fields of a record that are written once, by createContainer
Immutable(c) ==
    <<c.id, c.name, c.type, c.version, c.port, c.ramMb, c.maxPlayers,
      c.createdAt>>

\* C13: once a record is created, its id, name, type, version, port, ramMb,
\* maxPlayers and createdAt never change: no request and no timer writes any
\* field other than status, startedAt and stoppedAt.
C13_ConfigIsFrozen ==
    [][ \A id \in Allocated : Immutable(heap'[id]) = Immutable(heap[id]) ]_vars

\* a record whose three mutable fields were all written after creation still
\* carries the values createContainer gave it
C13_Witness ==
    \E id \in containers :
        /\ heap[id].status = "stopped"
        /\ heap[id].createdAt < heap[id].startedAt
        /\ heap[id].startedAt < heap[id].stoppedAt
        /\ heap[id].name = "Survival"
        /\ heap[id].type = DefaultType
        /\ heap[id].port = DefaultPort

RequestWith(key) ==
    \/ Reject(key)
    \/ \E config \in Configs : CreateServer(key, config)
    \/ \E id \in Ids :
           \/ GetServer(key, id)
           \/ StartServer(key, id)
           \/ StopServer(key, id)
           \/ RestartServer(key, id)
           \/ DeleteServer(key, id)

\* C15: a request to an /api route whose x-api-key header is absent or
\* differs from the configured secret is answered with 401 and has no
\* effect: registry and records unchanged, no timer scheduled.
C15_BadKeyHasNoEffect ==
    [][ \A key \in Keys \ {API_KEY} :
            RequestWith(key)
                => /\ response'.code = 401
                   /\ UNCHANGED <<containers, heap, tasks>>
      ]_vars

\* a request with a bad key was refused while a record in a transient
\* status was stored and its timers were pending
C15_Witness ==
    /\ response.code = 401
    /\ \E id \in containers :
           /\ heap[id].status \in Transient
           /\ Cardinality(PendingFor(id)) = 2

\* --------------------------------------------------------------------- C16
\* C16: create's timer writes 'running' and startedAt whatever the status of
\* the stored record is; in particular a record that a stop has already
\* brought to 'stopped' goes back to 'running' although no start or restart
\* was requested after the stop.
C16_CreateTimerOverwrites ==
    [][ \A id \in containers :
            \A status \in Statuses :
                Fired("create", id) /\ heap[id].status = status
                    => /\ heap'[id].status = "running"
                       /\ heap'[id].startedAt = now
                       /\ heap'[id].stoppedAt = heap[id].stoppedAt
      ]_vars

\* the only requests were one create and one stop; the stop completed first
\* and create's timer then put the stored record back to 'running'
C16_Witness ==
    /\ requests = 2
    /\ Len(heap) = 1
    /\ response.message = "Server stopping"
    /\ 1 \in containers
    /\ heap[1].status = "running"
    /\ heap[1].stoppedAt # NoTime
    /\ heap[1].startedAt > heap[1].stoppedAt

\* --------------------------------------------------------------------- C17
\* the same timer, whatever time it has left
SameTimer(a, b) == a.kind = b.kind /\ a.id = b.id

\* every timer of the list `old` is still in `new`, at the same position
Kept(old, new) ==
    /\ Len(new) >= Len(old)
    /\ \A k \in 1..Len(old) : SameTimer(old[k], new[k])

\* the step removes no pending timer, except the one due timer it runs
NoneCancelled ==
    \/ \A d \in Delays : Kept(tasks[d], tasks'[d])
    \/ \E d \in Delays :
           /\ Fire(d)
           /\ Kept(Tail(tasks[d]), tasks'[d])
           /\ \A e \in Delays \ {d} : Kept(tasks[e], tasks'[e])

\* an accepted start, stop or restart leaves the record one more pending
\* timer than it had
TransitionAddsTimer ==
    \A id \in containers :
        \A op \in {"start", "stop", "restart"} :
            Requested(op, id) /\ response'.success
                => Cardinality(PendingFor(id)') = Cardinality(PendingFor(id)) + 1

\* C17: no request cancels or replaces a pending timer: a timer leaves the
\* pending set only by being run, a transition requested while an earlier
\* timer is pending adds a timer, and every timer is run in the end (every
\* run of the model has finitely many requests, so in the end none is
\* pending).
C17_NoTimerIsCancelled ==
    /\ [][NoneCancelled /\ TransitionAddsTimer]_vars
    /\ <>[](Pending = {})

\* three timers pending for one stored record: create's, and those of a
\* start and a stop requested while it was pending
C17_Witness ==
    \E id \in containers :
        /\ KindsFor(id) = {"create", "start", "stop"}
        /\ Cardinality(PendingFor(id)) = 3

\* --------------------------------------------------------------------- C18
\* the pending second-phase timers of the restarts of one record
StartPhases(id) ==
    {p \in PendingFor(id) : tasks[p[1]][p[2]].kind = "restartStart"}

\* C18: the two phases of a restart are two timers set one after the other.
\* The handler sets only the first; the second is set, with its full delay,
\* by the step that runs the first and writes 'starting', and by no other
\* step; when the second runs it writes 'running' and startedAt.
C18_RestartPhasesInSequence ==
    [][ \A id \in Allocated :
          /\ Requested("restart", id) /\ id \in containers
                => /\ SchedulesOne("restartStop", id, RestartStopDelay)
                   /\ StartPhases(id)' = StartPhases(id)
          /\ Fired("restartStop", id)
                => /\ heap'[id].status = "starting"
                   /\ tasks'[RestartStartDelay] =
                          Append(tasks[RestartStartDelay],
                                 [kind |-> "restartStart", id |-> id,
                                  ttl |-> RestartStartDelay])
          /\ Cardinality(StartPhases(id)') > Cardinality(StartPhases(id))
                => Fired("restartStop", id)
          /\ Fired("restartStart", id)
                => /\ heap'[id].status = "running"
                   /\ heap'[id].startedAt = now
      ]_vars

\* between the two phases of a restart a stop request took effect: the
\* second phase is pending while the record is 'stopping' again
C18_Witness ==
    \E id \in containers :
        /\ KindsFor(id) = {"restartStart", "stop"}
        /\ heap[id].status = "stopping"

\* --------------------------------------------------------------------- C19
\* C19: no stored record is stuck in a status that is not a rest status: a
\* record in the registry with status 'created', 'starting' or 'stopping'
\* has a timer pending for it, so a stored record without pending timers is
\* 'running' or 'stopped'; and no record goes back to 'created' once it has
\* left it.
C19_NeverStuck ==
    /\ [](\A id \in containers :
              /\ heap[id].status \in {"created"} \cup Transient
                    => PendingFor(id) # {}
              /\ PendingFor(id) = {} => heap[id].status \in Rest)
    /\ [][ \A id \in Allocated :
               heap[id].status # "created" => heap'[id].status # "created"
         ]_vars

\* one stored record at rest with no timer left, next to a stored record
\* that is still 'created' with its timer pending
C19_Witness ==
    \E a, b \in containers :
        /\ heap[a].status = "stopped"
        /\ PendingFor(a) = {}
        /\ heap[b].status = "created"
        /\ KindsFor(b) = {"create"}

\* --------------------------------------------------------------------- C20
\* the step writes a rest status and its timestamp together, from a timer
StampedWithStatus(id) ==
    /\ heap'[id].startedAt # heap[id].startedAt
          => /\ heap'[id].status = "running"
             /\ heap'[id].startedAt = now
             /\ \E d \in Delays : Fire(d)
    /\ heap'[id].stoppedAt # heap[id].stoppedAt
          => /\ heap'[id].status = "stopped"
             /\ heap'[id].stoppedAt = now
             /\ \E d \in Delays : Fire(d)
    /\ heap[id].status # "running" /\ heap'[id].status = "running"
          => heap'[id].startedAt = now
    /\ heap[id].status # "stopped" /\ heap'[id].status = "stopped"
          => heap'[id].stoppedAt = now

\* C20: a record with status 'running' has startedAt set and one with status
\* 'stopped' has stoppedAt set; a record starts with neither timestamp, and
\* a timestamp is written only by a timer, together with its status, so a
\* record that never reached 'running' has no startedAt and one that never
\* reached 'stopped' has no stoppedAt.
C20_StatusAndStampTogether ==
    /\ [](\A id \in Allocated :
              /\ heap[id].status = "running" => heap[id].startedAt # NoTime
              /\ heap[id].status = "stopped" => heap[id].stoppedAt # NoTime)
    /\ [][ /\ \A id \in Allocated : StampedWithStatus(id)
           /\ Len(heap') > Len(heap)
                 => /\ heap'[Len(heap')].startedAt = NoTime
                    /\ heap'[Len(heap')].stoppedAt = NoTime
         ]_vars

\* a stored record that was stopped before it ever ran: stoppedAt is set,
\* startedAt is not
C20_Witness ==
    \E id \in containers :
        /\ heap[id].status = "stopped"
        /\ heap[id].stoppedAt # NoTime
        /\ heap[id].startedAt = NoTime
====
